---- MODULE Spec2Model ----
(***************************************************************************)
(* Access control and endpoint routing of the cashper front end:           *)
(*   - config/api.js and the two api.config variants (endpoint resolver),  *)
(*   - components/ProtectedRoute.jsx (access guard over localStorage),     *)
(*   - the dashboard applications client (getUserApplications).            *)
(* JavaScript strings are TLA+ strings; they are taken apart with Len,     *)
(* SubSeq and \o, so prefixes, regex anchors and JSON text are computed    *)
(* character by character.                                                 *)
(***************************************************************************)
EXTENDS Integers, Sequences, FiniteSets, TLC

VARIABLES
    env,            \* import.meta.env.VITE_API_URL: [set, val]
    exports,        \* what the three configuration modules export once evaluated
    asset,          \* the last getAssetUrl call and the call made on its result
    localStorage,   \* the keys access_token and user: [present, val] each
    render,         \* the last decision ProtectedRoute returned per isAdmin prop
    op,             \* the operation that produced the current state
    calls,          \* getUserApplications invocations, by call number
    requests        \* requests handed to the transport apiRequest, in order

vars == <<env, exports, asset, localStorage, render, op, calls, requests>>

(***************************************************************************)
(* Bounds of the model.                                                    *)
(***************************************************************************)
MaxPathLen == 2
MaxMembers == 2
MaxCalls == 2
MaxEvals == 2

(***************************************************************************)
(* JavaScript string primitives.                                           *)
(***************************************************************************)
CharAt(s, i) == IF i >= 1 /\ i <= Len(s) THEN SubSeq(s, i, i) ELSE ""

\* String.prototype.startsWith
startsWith(s, p) == Len(s) >= Len(p) /\ SubSeq(s, 1, Len(p)) = p

\* String.prototype.includes
includes(s, p) == \E i \in 1..(Len(s) - Len(p) + 1) : SubSeq(s, i, i + Len(p) - 1) = p

\* s.substring(n): s without its first n characters
dropChars(s, n) == IF n >= Len(s) THEN "" ELSE SubSeq(s, n + 1, Len(s))

\* !s for a string s: only the empty string is falsy
truthy(s) == s # ""

RECURSIVE StringsUpTo(_, _)
StringsUpTo(alphabet, n) ==
    IF n = 0 THEN {""}
    ELSE LET shorter == StringsUpTo(alphabet, n - 1)
         IN  shorter \cup {s \o c : s \in shorter, c \in alphabet}

(***************************************************************************)
(* Deployment configuration: VITE_API_URL is undefined, "" or a value.     *)
(***************************************************************************)
Unset == [set |-> FALSE, val |-> ""]
Configured(v) == [set |-> TRUE, val |-> v]

Origins ==
    {"", "http://localhost:8000", "https://api.example.com", "http://10.0.0.5:8080",
     "api.example.com", "/backend", "//cdn.example.com"}

Configs == {Unset} \cup {Configured(o) : o \in Origins}

(***************************************************************************)
(* config/api.js                                                           *)
(***************************************************************************)
\* API_ROOT = import.meta.env.VITE_API_URL || ''
API_ROOT(e) == IF e.set /\ truthy(e.val) THEN e.val ELSE ""

\* API_BASE_URL = `${API_ROOT}/api`
API_BASE_URL(e) == API_ROOT(e) \o "/api"

API_ENDPOINTS(e) ==
    LET root == API_ROOT(e)
    IN  [admin |-> root \o "/api/admin",
         auth |-> root \o "/api/auth",
         dashboard |-> root \o "/api/dashboard",
         loans |-> [personal |-> root \o "/api/personal-loan",
                    home |-> root \o "/api/home-loan",
                    business |-> root \o "/api/business-loan",
                    shortTerm |-> root \o "/api/short-term-loan"],
         insurance |-> [health |-> root \o "/api/health-insurance",
                        motor |-> root \o "/api/motor-insurance",
                        term |-> root \o "/api/term-insurance"],
         investments |-> [sip |-> root \o "/api/sip",
                          mutualFunds |-> root \o "/api/mutual-funds",
                          management |-> root \o "/api/investment-management"],
         tax |-> [personal |-> root \o "/api/personal-tax",
                  business |-> root \o "/api/business-tax"],
         services |-> [retail |-> root \o "/api/retail-services",
                       business |-> root \o "/api/business-services",
                       corporate |-> root \o "/api/corporate-services"],
         settings |-> root \o "/api/settings",
         notifications |-> root \o "/api/notifications",
         loanManagement |-> root \o "/api/loan-management"]

\* Every URL string of the table, the nested groups flattened.
EndpointUrls(t) ==
    {t.admin, t.auth, t.dashboard, t.settings, t.notifications, t.loanManagement}
    \cup {t.loans[k] : k \in DOMAIN t.loans}
    \cup {t.insurance[k] : k \in DOMAIN t.insurance}
    \cup {t.investments[k] : k \in DOMAIN t.investments}
    \cup {t.tax[k] : k \in DOMAIN t.tax}
    \cup {t.services[k] : k \in DOMAIN t.services}

\* baseUrl.replace(/^http/, 'ws'), faulty variant: only the plain scheme is known
replaceHttpWs_plainOnly(baseUrl) ==
    IF startsWith(baseUrl, "http://") THEN "ws://" \o dropChars(baseUrl, 7) ELSE baseUrl

\* baseUrl.replace(/^http/, 'ws')
replaceHttpWs(baseUrl) ==
    IF startsWith(baseUrl, "http") THEN "ws" \o dropChars(baseUrl, 4) ELSE baseUrl

getWebSocketUrl(e) ==
    LET baseUrl == IF truthy(API_ROOT(e)) THEN API_ROOT(e) ELSE "http://localhost:8000"
    IN  replaceHttpWs(baseUrl)

WS_ENDPOINTS(e) == [adminDashboard |-> getWebSocketUrl(e) \o "/api/admin/ws/dashboard"]

(***************************************************************************)
(* api.config (the variant that tells undefined from "") and its older     *)
(* variant (which does not).                                               *)
(***************************************************************************)
\* API_BASE_URL = envApiUrl !== undefined ? envApiUrl : 'http://localhost:8000'
ApiConfig_API_BASE_URL(e) == IF e.set THEN e.val ELSE "http://localhost:8000"

\* API_ENDPOINT = `${API_BASE_URL}/api`
ApiConfig_API_ENDPOINT(e) == ApiConfig_API_BASE_URL(e) \o "/api"

\* API_BASE_URL = import.meta.env.VITE_API_URL || 'http://localhost:8000'
ApiConfigOld_API_BASE_URL(e) == IF e.set /\ truthy(e.val) THEN e.val ELSE "http://localhost:8000"

ApiConfigOld_API_ENDPOINT(e) == ApiConfigOld_API_BASE_URL(e) \o "/api"

\* getAssetUrl, faulty variant: the path is not checked for being absolute already
getAssetUrl_noAbsoluteCheck(base, path) ==
    IF ~truthy(path) THEN ""
    ELSE LET normalizedPath == IF startsWith(path, "/") THEN path ELSE "/" \o path
         IN  base \o normalizedPath

\* getAssetUrl(path), with the module's API_BASE_URL as base
getAssetUrl(base, path) ==
    IF ~truthy(path) THEN ""
    ELSE IF startsWith(path, "http://") \/ startsWith(path, "https://") THEN path
    ELSE LET normalizedPath == IF startsWith(path, "/") THEN path ELSE "/" \o path
         IN  base \o normalizedPath

(***************************************************************************)
(* JSON.parse, for the JSON texts the model stores: objects, arrays,       *)
(* strings without escapes, integers, true, false, null, white space.      *)
(* A value is [ty, v]; an object also carries its isAdmin and role         *)
(* members, the only two the guard reads.                                  *)
(***************************************************************************)
Undefined == [ty |-> "undefined", v |-> ""]

ParseFail ==
    [ok |-> FALSE, next |-> 0, ty |-> "undefined", v |-> "",
     isAdmin |-> Undefined, role |-> Undefined]

Parsed(type, val, nxt) ==
    [ok |-> TRUE, next |-> nxt, ty |-> type, v |-> val,
     isAdmin |-> Undefined, role |-> Undefined]

JsonWs == {" ", "\t", "\n", "\r"}
JsonDigits == {"0", "1", "2", "3", "4", "5", "6", "7", "8", "9"}

RECURSIVE skipWs(_, _)
skipWs(s, i) == IF CharAt(s, i) \in JsonWs THEN skipWs(s, i + 1) ELSE i

RECURSIVE scanDigits(_, _)
scanDigits(s, i) == IF CharAt(s, i) \in JsonDigits THEN scanDigits(s, i + 1) ELSE i

\* index of the next double quote at or after i, 0 when there is none
RECURSIVE findQuote(_, _)
findQuote(s, i) ==
    IF i > Len(s) THEN 0
    ELSE IF CharAt(s, i) = "\"" THEN i
    ELSE findQuote(s, i + 1)

\* s[i] is the opening quote
parseString(s, i) ==
    LET j == findQuote(s, i + 1)
    IN  IF j = 0 THEN ParseFail
        ELSE Parsed("string", IF j = i + 1 THEN "" ELSE SubSeq(s, i + 1, j - 1), j + 1)

parseNumber(s, i) ==
    LET d == IF CharAt(s, i) = "-" THEN i + 1 ELSE i
        e == IF CharAt(s, d) = "0" THEN d + 1 ELSE scanDigits(s, d)
    IN  IF e = d THEN ParseFail ELSE Parsed("number", SubSeq(s, i, e - 1), e)

RECURSIVE parseValue(_, _)
RECURSIVE parseMembers(_, _, _, _)
RECURSIVE parseElements(_, _)

\* members of an object from position i on: "key" : value, then , or }
parseMembers(s, i, isAdminSoFar, roleSoFar) ==
    LET k == skipWs(s, i)
        key == IF CharAt(s, k) = "\"" THEN parseString(s, k) ELSE ParseFail
        colon == skipWs(s, key.next)
        val == IF key.ok /\ CharAt(s, colon) = ":" THEN parseValue(s, colon + 1) ELSE ParseFail
        after == skipWs(s, val.next)
        member == [ty |-> val.ty, v |-> val.v]
        isAdminNow == IF key.v = "isAdmin" THEN member ELSE isAdminSoFar
        roleNow == IF key.v = "role" THEN member ELSE roleSoFar
    IN  IF ~val.ok THEN ParseFail
        ELSE IF CharAt(s, after) = "," THEN parseMembers(s, after + 1, isAdminNow, roleNow)
        ELSE IF CharAt(s, after) = "}"
             THEN [ok |-> TRUE, next |-> after + 1, ty |-> "object", v |-> "",
                   isAdmin |-> isAdminNow, role |-> roleNow]
        ELSE ParseFail

\* elements of an array from position i on: value, then , or ]
parseElements(s, i) ==
    LET val == parseValue(s, i)
        after == skipWs(s, val.next)
    IN  IF ~val.ok THEN ParseFail
        ELSE IF CharAt(s, after) = "," THEN parseElements(s, after + 1)
        ELSE IF CharAt(s, after) = "]" THEN Parsed("array", "", after + 1)
        ELSE ParseFail

parseValue(s, i0) ==
    LET i == skipWs(s, i0)
        c == CharAt(s, i)
        rest == dropChars(s, i - 1)
    IN  IF c = "{"
        THEN IF CharAt(s, skipWs(s, i + 1)) = "}"
             THEN Parsed("object", "", skipWs(s, i + 1) + 1)
             ELSE parseMembers(s, i + 1, Undefined, Undefined)
        ELSE IF c = "["
        THEN IF CharAt(s, skipWs(s, i + 1)) = "]"
             THEN Parsed("array", "", skipWs(s, i + 1) + 1)
             ELSE parseElements(s, i + 1)
        ELSE IF c = "\"" THEN parseString(s, i)
        ELSE IF c = "-" \/ c \in JsonDigits THEN parseNumber(s, i)
        ELSE IF startsWith(rest, "true") THEN Parsed("boolean", "true", i + 4)
        ELSE IF startsWith(rest, "false") THEN Parsed("boolean", "false", i + 5)
        ELSE IF startsWith(rest, "null") THEN Parsed("null", "", i + 4)
        ELSE ParseFail

\* JSON.parse(text): the value, or ok = FALSE where JSON.parse throws SyntaxError
JSONparse(text) ==
    LET r == parseValue(text, 1)
    IN  IF r.ok /\ skipWs(text, r.next) = Len(text) + 1 THEN r ELSE ParseFail

(***************************************************************************)
(* The session store: localStorage keys access_token and user.             *)
(* getItem gives null for a key that is absent.                            *)
(***************************************************************************)
Absent == [present |-> FALSE, val |-> ""]
Item(v) == [present |-> TRUE, val |-> v]

\* !x for x a string or null
falsy(item) == ~item.present \/ ~truthy(item.val)

EmptyStorage == [access_token |-> Absent, user |-> Absent]

Tokens == {"", "eyJhbGciOi.tok"}

\* The members a stored profile object is built from.
MemberTexts ==
    {"\"isAdmin\":true", "\"isAdmin\":false", "\"role\":\"admin\"", "\"role\":\"user\"",
     "\"name\":\"a\""}

RECURSIVE MemberLists(_)
MemberLists(n) ==
    IF n <= 1 THEN MemberTexts
    ELSE LET shorter == MemberLists(n - 1)
         IN  shorter \cup {l \o "," \o m : l \in shorter, m \in MemberTexts}

\* JSON.stringify of a flat profile object with up to MaxMembers members
ObjectTexts == {"{}"} \cup {"{" \o l \o "}" : l \in MemberLists(MaxMembers)}

\* the same texts cut short of their closing brace
TruncatedTexts == {SubSeq(t, 1, Len(t) - 1) : t \in ObjectTexts}

OtherTexts ==
    {"", "{not json", "undefined", "null", "1", "true", "\"admin\"", "[]", "[\"admin\"]",
     "{\"isAdmin\":\"true\"}", "{\"isAdmin\":1,\"role\":\"Admin\"}",
     " {\"role\" : \"admin\"} ", "{\"user\":{\"role\":\"admin\"}}", "{role:\"admin\"}"}

ProfileTexts == ObjectTexts \cup TruncatedTexts \cup OtherTexts

(***************************************************************************)
(* components/ProtectedRoute.jsx                                           *)
(***************************************************************************)
Navigate(dest) == [kind |-> "Navigate", to |-> dest]
Element == [kind |-> "element", to |-> ""]
NoDecision == [kind |-> "none", to |-> ""]

\* faulty variant: both must be missing
NotLoggedIn_both(token, user) == falsy(token) /\ falsy(user)

\* if (!token || !user)
NotLoggedIn(token, user) == falsy(token) \/ falsy(user)

\* faulty variant: flag and role must agree
isUserAdmin_and(userData) ==
    /\ userData.isAdmin = [ty |-> "boolean", v |-> "true"]
    /\ userData.role = [ty |-> "string", v |-> "admin"]

\* userData.isAdmin === true || userData.role === 'admin'
isUserAdmin(userData) ==
    \/ userData.isAdmin = [ty |-> "boolean", v |-> "true"]
    \/ userData.role = [ty |-> "string", v |-> "admin"]

\* Reading a property of null throws TypeError; of any other value it does not.
PropertyReadThrows(userData) == userData.ty = "null"

\* an exception in flight; as a render's outcome, one that reached the caller
Thrown(name) == [kind |-> "throw", to |-> name]

\* the try block ran to its end without returning
FellThrough == [kind |-> "fallthrough", to |-> ""]

\* try { JSON.parse(user); isUserAdmin; if (!isUserAdmin) return <Navigate/> }
AdminTryBlock(user) ==
    LET userData == JSONparse(user.val)
    IN  IF ~userData.ok THEN Thrown("SyntaxError")
        ELSE IF PropertyReadThrows(userData) THEN Thrown("TypeError")
        ELSE IF ~isUserAdmin(userData) THEN Navigate("/dashboard")
        ELSE FellThrough

\* faulty variant: only the parse failure is handled, anything else is rethrown
CatchBlock_syntaxOnly(e) == IF e.to = "SyntaxError" THEN Navigate("/login") ELSE e

\* catch (e) { console.error(...); return <Navigate to="/login" replace /> }
CatchBlock(e) == Navigate("/login")

ProtectedRoute(ls, isAdmin) ==
    LET token == ls.access_token
        user == ls.user
        tried == AdminTryBlock(user)
    IN  IF NotLoggedIn(token, user) THEN Navigate("/login")
        ELSE IF isAdmin
             THEN IF tried.kind = "throw" THEN CatchBlock(tried)
                  ELSE IF tried.kind = "Navigate" THEN tried
                  ELSE Element
        ELSE Element

\* render[isAdmin]: the decision last returned for that prop since the store was
\* last written, and how many renders returned it
NothingRendered == [b \in BOOLEAN |-> [decision |-> NoDecision, n |-> 0]]

Rendered(isAdmin) ==
    [decision |-> ProtectedRoute(localStorage, isAdmin), n |-> render[isAdmin].n + 1]

\* faulty variant: the catch branch also clears the stored session
Evaluate_clearsOnCatch(isAdmin) ==
    /\ render[isAdmin].n < MaxEvals
    /\ render' = [render EXCEPT ![isAdmin] = Rendered(isAdmin)]
    /\ localStorage' =
           IF isAdmin /\ ~NotLoggedIn(localStorage.access_token, localStorage.user)
                      /\ ~JSONparse(localStorage.user.val).ok
           THEN EmptyStorage ELSE localStorage
    /\ op' = "evaluate"
    /\ UNCHANGED <<env, exports, asset, calls, requests>>

\* One render of <ProtectedRoute isAdmin={isAdmin}>: two getItem reads, no write.
Evaluate(isAdmin) ==
    /\ render[isAdmin].n < MaxEvals
    /\ render' = [render EXCEPT ![isAdmin] = Rendered(isAdmin)]
    /\ op' = "evaluate"
    /\ UNCHANGED <<env, exports, asset, localStorage, calls, requests>>

(***************************************************************************)
(* The writers of the session store (the login and logout flow).           *)
(***************************************************************************)
Login(tok, prof) ==
    /\ localStorage' = [access_token |-> Item(tok), user |-> Item(prof)]
    /\ render' = NothingRendered
    /\ op' = "login"
    /\ UNCHANGED <<env, exports, asset, calls, requests>>

Logout ==
    /\ localStorage' = EmptyStorage
    /\ render' = NothingRendered
    /\ op' = "logout"
    /\ UNCHANGED <<env, exports, asset, calls, requests>>

SetUser(prof) ==
    /\ localStorage' = [localStorage EXCEPT !.user = Item(prof)]
    /\ render' = NothingRendered
    /\ op' = "setUser"
    /\ UNCHANGED <<env, exports, asset, calls, requests>>

NoAsset == [impl |-> "none", path |-> "", out |-> "", again |-> FALSE, out2 |-> ""]
NoExports == [api |-> {}, apiConfig |-> {}, apiConfigOld |-> {}]

InitGuard ==
    /\ env = Unset
    /\ exports = NoExports
    /\ asset = NoAsset
    /\ localStorage = EmptyStorage
    /\ render = NothingRendered
    /\ op = "init"
    /\ calls = <<>>
    /\ requests = <<>>

NextGuard ==
    \/ \E tok \in Tokens, prof \in ProfileTexts : Login(tok, prof)
    \/ Logout
    \/ \E prof \in ProfileTexts : SetUser(prof)
    \/ \E isAdmin \in BOOLEAN : Evaluate(isAdmin)

SpecGuard == InitGuard /\ [][NextGuard]_vars

(***************************************************************************)
(* Claims about the access guard, checked under SpecGuard.                 *)
(***************************************************************************)
StoredToken == localStorage.access_token
StoredUser == localStorage.user
StoredUserData == JSONparse(StoredUser.val)
Evaluated(b) == render[b].n > 0
RedirectLogin == Navigate("/login")
RedirectDashboard == Navigate("/dashboard")

\* C1 (as claimed): with a non-empty token and a non-empty profile that does not
\* parse as JSON, a guard evaluation for either privilege (isAdmin false or true)
\* gives Redirect(/login), never Allow.
C1_MalformedProfileFailsClosed ==
    \A b \in BOOLEAN :
        ( /\ Evaluated(b)
          /\ ~falsy(StoredToken)
          /\ ~falsy(StoredUser)
          /\ ~StoredUserData.ok )
        => render[b].decision = RedirectLogin

\* C2: whenever the token is absent (null or empty), an evaluation for either
\* privilege gives Redirect(/login), whatever the profile holds.
C2_NoTokenNeverAllowed ==
    \A b \in BOOLEAN :
        (Evaluated(b) /\ falsy(StoredToken)) => render[b].decision = RedirectLogin

\* C2 witness: an admin route was evaluated with no usable token over a
\* well-formed admin profile.
C2_Witness ==
    /\ Evaluated(TRUE)
    /\ falsy(StoredToken)
    /\ StoredUser = Item("{\"isAdmin\":true,\"role\":\"admin\"}")
    /\ render[TRUE].decision = RedirectLogin

\* C3: for a non-empty token and a profile that parses to an object, an ADMIN
\* evaluation allows exactly when the profile has isAdmin === true or
\* role === 'admin', and redirects to /dashboard otherwise; a profile whose flag
\* and role disagree is allowed.
C3_AdminIffFlagOrRole ==
    ( /\ Evaluated(TRUE)
      /\ ~falsy(StoredToken)
      /\ StoredUserData.ok
      /\ StoredUserData.ty \in {"object", "array"} )
    => /\ render[TRUE].decision =
              IF \/ (StoredUserData.isAdmin.ty = "boolean" /\ StoredUserData.isAdmin.v = "true")
                 \/ (StoredUserData.role.ty = "string" /\ StoredUserData.role.v = "admin")
              THEN Element
              ELSE RedirectDashboard
       /\ StoredUser.val \in {"{\"isAdmin\":false,\"role\":\"admin\"}",
                              "{\"isAdmin\":true,\"role\":\"user\"}"}
              => render[TRUE].decision = Element

\* C3 witness: the flag says no, the role says admin, and the admin route rendered.
C3_Witness ==
    /\ Evaluated(TRUE)
    /\ ~falsy(StoredToken)
    /\ StoredUser = Item("{\"isAdmin\":false,\"role\":\"admin\"}")
    /\ render[TRUE].decision = Element

\* C10: a guard evaluation leaves the session store as it was, and an evaluation
\* that follows another for the same privilege, with no write in between,
\* returns the same decision.
C10_GuardReadsOnly ==
    [][op' = "evaluate" =>
          /\ localStorage' = localStorage
          /\ \A b \in BOOLEAN :
                 Evaluated(b) => render'[b].decision = render[b].decision]_vars

\* C10 witness: the admin route was evaluated twice in a row over a stored
\* session whose profile does not parse.
C10_Witness ==
    /\ op = "evaluate"
    /\ render[TRUE].n >= 2
    /\ ~falsy(StoredToken)
    /\ ~falsy(StoredUser)
    /\ ~StoredUserData.ok

\* C11: every evaluation, whatever the stored token and profile string and for
\* either privilege, ends in exactly one of Allow, Redirect(/login) and
\* Redirect(/dashboard), with no exception reaching the caller; an ADMIN
\* evaluation over a profile that parses to JSON null gives Redirect(/login).
C11_GuardTotal ==
    \A b \in BOOLEAN :
        Evaluated(b) =>
            /\ render[b].decision \in {Element, RedirectLogin, RedirectDashboard}
            /\ render[b].decision.kind # "throw"
            /\ ( /\ b
                 /\ ~falsy(StoredToken)
                 /\ StoredUserData.ok
                 /\ StoredUserData.ty = "null" )
               => render[b].decision = RedirectLogin

\* C11 witness: the admin route was evaluated over the stored profile text null.
C11_Witness ==
    /\ Evaluated(TRUE)
    /\ ~falsy(StoredToken)
    /\ StoredUser = Item("null")
    /\ render[TRUE].decision = RedirectLogin

(***************************************************************************)
(* The endpoint resolver as the bundle evaluates it: each configuration    *)
(* module is evaluated once, against the VITE_API_URL the build was given, *)
(* and getAssetUrl is then called by the views.                            *)
(***************************************************************************)
ApiModule(e) ==
    [API_ROOT |-> API_ROOT(e),
     API_BASE_URL |-> API_BASE_URL(e),
     API_ENDPOINTS |-> API_ENDPOINTS(e),
     WS_ENDPOINTS |-> WS_ENDPOINTS(e)]

ApiConfigModule(e) ==
    [API_BASE_URL |-> ApiConfig_API_BASE_URL(e), API_ENDPOINT |-> ApiConfig_API_ENDPOINT(e)]

ApiConfigOldModule(e) ==
    [API_BASE_URL |-> ApiConfigOld_API_BASE_URL(e),
     API_ENDPOINT |-> ApiConfigOld_API_ENDPOINT(e)]

LoadApi ==
    /\ exports.api = {}
    /\ exports' = [exports EXCEPT !.api = {ApiModule(env)}]
    /\ op' = "load"
    /\ UNCHANGED <<env, asset, localStorage, render, calls, requests>>

LoadApiConfig ==
    /\ exports.apiConfig = {}
    /\ exports' = [exports EXCEPT !.apiConfig = {ApiConfigModule(env)}]
    /\ op' = "load"
    /\ UNCHANGED <<env, asset, localStorage, render, calls, requests>>

LoadApiConfigOld ==
    /\ exports.apiConfigOld = {}
    /\ exports' = [exports EXCEPT !.apiConfigOld = {ApiConfigOldModule(env)}]
    /\ op' = "load"
    /\ UNCHANGED <<env, asset, localStorage, render, calls, requests>>

\* The asset paths the views pass: a prefix followed by a short tail.
PathPrefixes == {"", "/", "http://", "https://", "http:/", "HTTP://", "//"}
PathTails == StringsUpTo({"u", "/"}, MaxPathLen)
AssetPaths ==
    {pre \o tail : pre \in PathPrefixes, tail \in PathTails}
    \cup {"uploads/image.jpg", "/uploads/image.jpg", "https://cdn/x.png"}

\* the API_BASE_URL the named api.config variant closed over
AssetBases(impl) ==
    IF impl = "apiConfig" THEN {m.API_BASE_URL : m \in exports.apiConfig}
    ELSE {m.API_BASE_URL : m \in exports.apiConfigOld}

\* getAssetUrl(path) of one of the two api.config variants
CallGetAssetUrl(impl, path) ==
    /\ \E base \in AssetBases(impl) :
           asset' = [impl |-> impl, path |-> path, out |-> getAssetUrl(base, path),
                     again |-> FALSE, out2 |-> ""]
    /\ op' = "getAssetUrl"
    /\ UNCHANGED <<env, exports, localStorage, render, calls, requests>>

\* getAssetUrl called on what the last call returned
CallGetAssetUrlOnResult ==
    /\ asset.impl # "none"
    /\ ~asset.again
    /\ \E base \in AssetBases(asset.impl) :
           asset' = [asset EXCEPT !.again = TRUE, !.out2 = getAssetUrl(base, asset.out)]
    /\ op' = "getAssetUrl"
    /\ UNCHANGED <<env, exports, localStorage, render, calls, requests>>

InitResolver ==
    /\ env \in Configs
    /\ exports = NoExports
    /\ asset = NoAsset
    /\ localStorage = EmptyStorage
    /\ render = NothingRendered
    /\ op = "init"
    /\ calls = <<>>
    /\ requests = <<>>

NextResolver ==
    \/ LoadApi
    \/ LoadApiConfig
    \/ LoadApiConfigOld
    \/ \E impl \in {"apiConfig", "apiConfigOld"}, path \in AssetPaths : CallGetAssetUrl(impl, path)
    \/ CallGetAssetUrlOnResult

SpecResolver == InitResolver /\ [][NextResolver]_vars

(***************************************************************************)
(* Claims about the endpoint resolver, checked under SpecResolver.         *)
(***************************************************************************)
LocalDevOrigin == "http://localhost:8000"
WsPath == "/api/admin/ws/dashboard"

\* a URL with no scheme and no host: a path on the page's own origin
OriginRelative(u) == startsWith(u, "/") /\ ~startsWith(u, "//") /\ ~includes(u, "://")

\* C4 (as claimed): with VITE_API_URL = "", every URL the resolver produces is
\* origin-relative: API_BASE_URL, every entry of API_ENDPOINTS, the api.config
\* API_ENDPOINT, and WS_ENDPOINTS.adminDashboard.
C4_EmptyOriginAllRelative ==
    env = Configured("") =>
        /\ \A m \in exports.api :
               /\ OriginRelative(m.API_BASE_URL)
               /\ \A u \in EndpointUrls(m.API_ENDPOINTS) : OriginRelative(u)
               /\ OriginRelative(m.WS_ENDPOINTS.adminDashboard)
        /\ \A m \in exports.apiConfig : OriginRelative(m.API_ENDPOINT)

\* C5 (as claimed): with VITE_API_URL unset, the origin every API endpoint is
\* prefixed with is http://localhost:8000, the WebSocket origin is
\* ws://localhost:8000, and the resolution differs from that of "".
C5_UnsetIsLocalDev ==
    env = Unset =>
        /\ \A m \in exports.api :
               /\ m.API_ROOT = LocalDevOrigin
               /\ \A u \in EndpointUrls(m.API_ENDPOINTS) : startsWith(u, LocalDevOrigin \o "/api/")
               /\ m.WS_ENDPOINTS.adminDashboard = "ws://localhost:8000" \o WsPath
               /\ m # ApiModule(Configured(""))
        /\ \A m \in exports.apiConfig : m.API_BASE_URL = LocalDevOrigin

\* C6 (as claimed): under every configuration, getAssetUrl applied to its own
\* result returns that result.
C6_AssetUrlIdempotentAnyOrigin == asset.again => asset.out2 = asset.out

\* C6 (amended): getAssetUrl applied to its own result returns that result when
\* the origin is unset, empty, or starts with http:// or https://.
C6_AssetUrlIdempotentHttpOrigin ==
    ( /\ asset.again
      /\ \/ env = Unset
         \/ env.val = ""
         \/ startsWith(env.val, "http://")
         \/ startsWith(env.val, "https://") )
    => asset.out2 = asset.out

\* C6 witness: a relative path was resolved against a remote origin and the
\* result resolved again.
C6_Witness ==
    /\ asset.again
    /\ env = Configured("https://api.example.com")
    /\ asset.path = "uploads/image.jpg"
    /\ asset.out = "https://api.example.com/uploads/image.jpg"
    /\ asset.out2 = asset.out

\* C8: for a configured origin http://<rest> or https://<rest>, the WebSocket
\* endpoint is ws://<rest> or wss://<rest> followed by /api/admin/ws/dashboard,
\* and never starts with http.
C8_WebSocketSchemeSwap ==
    \A m \in exports.api :
        LET ws == m.WS_ENDPOINTS.adminDashboard
        IN  /\ (env.set /\ startsWith(env.val, "http://"))
                => ws = "ws://" \o dropChars(env.val, 7) \o WsPath
            /\ (env.set /\ startsWith(env.val, "https://"))
                => ws = "wss://" \o dropChars(env.val, 8) \o WsPath
            /\ (env.set /\ (startsWith(env.val, "http://") \/ startsWith(env.val, "https://")))
                => ~startsWith(ws, "http")
            /\ env = Configured("https://api.example.com")
                => ws = "wss://api.example.com/api/admin/ws/dashboard"

\* C8 witness: api.js was evaluated with the origin https://api.example.com.
C8_Witness ==
    /\ env = Configured("https://api.example.com")
    /\ \E m \in exports.api :
           m.WS_ENDPOINTS.adminDashboard = "wss://api.example.com/api/admin/ws/dashboard"

(***************************************************************************)
(* The dashboard applications client: getUserApplications.                 *)
(* apiRequest and getAuthToken come from the services api module.          *)
(***************************************************************************)
\* const API_BASE_URL = API_ENDPOINTS.dashboard
Dashboard_API_BASE_URL(e) == API_ENDPOINTS(e).dashboard

\* getAuthToken(): the stored access token, null when there is none
getAuthToken == localStorage.access_token

\* `Bearer ${token}`: a null token is spelled out as the text null
BearerHeader(token) == "Bearer " \o (IF token.present THEN token.val ELSE "null")

Pending == [kind |-> "pending", src |-> "", req |-> 0, status |-> 0]

\* what the transport settles a request with: the parsed body of a 2xx
\* response, or an error object of its own carrying the status
HttpResponse(c) == [kind |-> "response", src |-> "apiRequest", req |-> c, status |-> 200]
HttpError(c, st) == [kind |-> "error", src |-> "apiRequest", req |-> c, status |-> st]
TransportResults(c) == {HttpResponse(c)} \cup {HttpError(c, st) : st \in {401, 500}}

NotSettled == [kind |-> "pending", val |-> Pending]

\* getUserApplications(): builds the options and calls apiRequest, then awaits
getUserApplications_call ==
    /\ Len(calls) < MaxCalls
    /\ LET c == Len(calls) + 1
           token == getAuthToken
       IN  /\ requests' = Append(requests,
                  [call |-> c,
                   url |-> Dashboard_API_BASE_URL(env) \o "/applications",
                   method |-> "GET",
                   authorization |-> BearerHeader(token),
                   contentType |-> "application/json"])
           /\ calls' = Append(calls,
                  [pc |-> "awaiting", tokenAtCall |-> token, settled |-> Pending,
                   outcome |-> NotSettled, logged |-> FALSE])
    /\ op' = "getUserApplications"
    /\ UNCHANGED <<env, exports, asset, localStorage, render>>

\* the transport settles the promise apiRequest returned
apiRequest_settle(c, result) ==
    /\ calls[c].pc = "awaiting"
    /\ calls' = [calls EXCEPT ![c].pc = "settled", ![c].settled = result]
    /\ op' = "apiRequest"
    /\ UNCHANGED <<env, exports, asset, localStorage, render, requests>>

\* return response
getUserApplications_return(c) ==
    /\ calls[c].pc = "settled"
    /\ calls[c].settled.kind = "response"
    /\ calls' = [calls EXCEPT ![c].pc = "done",
                              ![c].outcome = [kind |-> "returned", val |-> calls[c].settled]]
    /\ op' = "getUserApplications"
    /\ UNCHANGED <<env, exports, asset, localStorage, render, requests>>

\* faulty variant: the catch block throws an error of its own
getUserApplications_catch_wraps(c) ==
    /\ calls[c].pc = "settled"
    /\ calls[c].settled.kind = "error"
    /\ calls' = [calls EXCEPT ![c].pc = "done",
                              ![c].logged = TRUE,
                              ![c].outcome =
                                  [kind |-> "threw",
                                   val |-> [calls[c].settled EXCEPT !.src = "getUserApplications"]]]
    /\ op' = "getUserApplications"
    /\ UNCHANGED <<env, exports, asset, localStorage, render, requests>>

\* catch (error) { console.error(...); throw error; }
getUserApplications_catch(c) ==
    /\ calls[c].pc = "settled"
    /\ calls[c].settled.kind = "error"
    /\ calls' = [calls EXCEPT ![c].pc = "done",
                              ![c].logged = TRUE,
                              ![c].outcome = [kind |-> "threw", val |-> calls[c].settled]]
    /\ op' = "getUserApplications"
    /\ UNCHANGED <<env, exports, asset, localStorage, render, requests>>

AggregatorConfigs == {Unset, Configured(""), Configured("https://api.example.com")}

InitAggregator ==
    /\ env \in AggregatorConfigs
    /\ exports = NoExports
    /\ asset = NoAsset
    /\ localStorage = EmptyStorage
    /\ render = NothingRendered
    /\ op = "init"
    /\ calls = <<>>
    /\ requests = <<>>

NextAggregator ==
    \/ \E tok \in Tokens : Login(tok, "{\"role\":\"user\"}")
    \/ Logout
    \/ getUserApplications_call
    \/ \E c \in DOMAIN calls : \E result \in TransportResults(c) : apiRequest_settle(c, result)
    \/ \E c \in DOMAIN calls : getUserApplications_return(c)
    \/ \E c \in DOMAIN calls : getUserApplications_catch(c)

SpecAggregator == InitAggregator /\ [][NextAggregator]_vars

(***************************************************************************)
(* Claims about getUserApplications, checked under SpecAggregator.         *)
(***************************************************************************)
RequestsOf(c) == {i \in DOMAIN requests : requests[i].call = c}

\* C7 (as claimed): a call made while the stored token is null issues no
\* transport request (so no Authorization: Bearer header leaves for it) and
\* fails with an AuthError.
C7_NullTokenNoRequest ==
    \A c \in DOMAIN calls :
        ~calls[c].tokenAtCall.present =>
            /\ RequestsOf(c) = {}
            /\ calls[c].pc = "done" =>
                   (calls[c].outcome.kind = "threw" /\ calls[c].outcome.val.src = "AuthError")

\* C9: every call hands the transport at most one request, addressed to the
\* resolved dashboard endpoint followed by /applications; a call whose request
\* failed throws the transport's own error object, and a call whose request
\* succeeded returns the transport's result as it is.
C9_OneRequestErrorUnchanged ==
    \A c \in DOMAIN calls :
        /\ Cardinality(RequestsOf(c)) <= 1
        /\ \A i \in RequestsOf(c) :
               /\ requests[i].url = API_ENDPOINTS(env).dashboard \o "/applications"
               /\ env = Configured("https://api.example.com")
                      => requests[i].url = "https://api.example.com/api/dashboard/applications"
        /\ calls[c].pc = "done" =>
               /\ calls[c].settled.kind = "error"
                      => calls[c].outcome = [kind |-> "threw", val |-> HttpError(c, calls[c].settled.status)]
               /\ calls[c].settled.kind = "response"
                      => calls[c].outcome = [kind |-> "returned", val |-> HttpResponse(c)]

\* C9 witness: a call ended by throwing the 401 error of its one request.
C9_Witness ==
    \E c \in DOMAIN calls :
        /\ calls[c].pc = "done"
        /\ Cardinality(RequestsOf(c)) = 1
        /\ calls[c].outcome = [kind |-> "threw", val |-> HttpError(c, 401)]

====
